---- MODULE Spec2Model ----
(***************************************************************************)
(* State-machine model of the securitypizza_etl bulk loader.               *)
(*                                                                         *)
(* Three pipelines are modelled:                                           *)
(*   mode "count"    : hibpEtl          of src/src/securitypizza_etl.go    *)
(*   mode "password" : hibpPasswordsEtl of src/src/securitypizza_etl.go    *)
(*   mode "reencode" : hibpEtl          of src/securitypizza_etl.go        *)
(*                                                                         *)
(* Strings are sequences of byte values (code points), so that splitting,  *)
(* case folding, integer parsing, hex decoding and ascii85 encoding are    *)
(* computed character by character as the Go library computes them.        *)
(***************************************************************************)
EXTENDS Integers, Sequences, FiniteSets, TLC

(***************************************************************************)
(* Bounds of the model.                                                    *)
(***************************************************************************)
\* largest batch size explored (BATCH_SIZE is 10_000 / 60_000 in the source)
MaxBatch == 2
\* largest number of lines the scanner delivers in one run
MaxLines == 5
\* largest number of statements the store rejects for external reasons
MaxFaults == 1

(***************************************************************************)
(* Input alphabet: the lines a file may hold, as byte sequences.           *)
(***************************************************************************)
\* "Ab:5"
LineValidA == <<65, 98, 58, 53>>
\* "cd:3"
LineValidB == <<99, 100, 58, 51>>
\* "bad"  (no separator)
LineNoSep == <<98, 97, 100>>
\* ":5"   (empty key part)
LineEmptyKey == <<58, 53>>
\* "ab:x" (value is not an integer)
LineNotInt == <<97, 98, 58, 120>>
\* "ef:1:2" (two separators)
LineTwoSep == <<101, 102, 58, 49, 58, 50>>

\* "gh:1" (key with bytes outside the hex alphabet)
LineNotHex == <<103, 104, 58, 49>>
\* "abc:1" (key of odd length)
LineOddHex == <<97, 98, 99, 58, 49>>

\* the three-line input of end-to-end scenario A: valid, no separator, valid
ScenarioA == <<LineValidA, LineNoSep, LineValidB>>

Lines == {LineValidA, LineValidB, LineNoSep, LineEmptyKey, LineNotInt, LineTwoSep}

\* the lines a file of each form may hold: a non-integer value is a case of
\* the count form, a second separator a case of the count and password forms
LinesOf(m) ==
    IF m = "count" THEN Lines \cup {LineNotHex}
    ELSE IF m = "password" THEN Lines \ {LineNotInt}
    ELSE (Lines \ {LineNotInt, LineTwoSep}) \cup {LineNotHex, LineOddHex}

\* "November 19 2020", "February 30 2020", "Nov 19 2020", "" as token lists
\* "November 19 2020"
DateGood == <<78, 111, 118, 101, 109, 98, 101, 114, 32, 49, 57, 32, 50, 48, 50, 48>>
\* "november 19 2020"
DateFolded == <<110, 111, 118, 101, 109, 98, 101, 114, 32, 49, 57, 32, 50, 48, 50, 48>>
\* "February 30 2020"
DateBadDay == <<70, 101, 98, 114, 117, 97, 114, 121, 32, 51, 48, 32, 50, 48, 50, 48>>
\* "Smarch 1 2020"
DateBadMonth == <<83, 109, 97, 114, 99, 104, 32, 49, 32, 50, 48, 50, 48>>
\* "November 19 2020 " (text after the year)
DateExtraText == <<78, 111, 118, 101, 109, 98, 101, 114, 32, 49, 57, 32, 50, 48, 50, 48, 32>>
\* "November 19 20" (a year of two digits)
DateShortYear == <<78, 111, 118, 101, 109, 98, 101, 114, 32, 49, 57, 32, 50, 48>>
\* ""
DateEmpty == <<>>
Dates == {DateGood, DateFolded, DateBadDay, DateBadMonth, DateExtraText,
          DateShortYear, DateEmpty}

Modes == {"count", "password", "reencode"}

(***************************************************************************)
(* strings.SplitN(s, ":", 2)                                               *)
(***************************************************************************)
\* index of the first occurrence of byte c in s, 0 when absent
IndexByte(s, c) ==
    IF \E i \in 1..Len(s) : s[i] = c
    THEN CHOOSE i \in 1..Len(s) : s[i] = c /\ \A j \in 1..(i-1) : s[j] # c
    ELSE 0

\* SplitN cutting at the last ':' instead of the first
SplitNLast(s) ==
    LET S == {i \in 1..Len(s) : s[i] = 58}
        i == IF S = {} THEN 0 ELSE CHOOSE k \in S : \A j \in S : j <= k
    IN IF i = 0 THEN <<s>>
       ELSE <<SubSeq(s, 1, i-1), SubSeq(s, i+1, Len(s))>>

\* strings.SplitN(s, ":", 2): at most two parts, split at the first ':'
SplitN(s) ==
    LET i == IndexByte(s, 58)
    IN IF i = 0 THEN <<s>>
       ELSE <<SubSeq(s, 1, i-1), SubSeq(s, i+1, Len(s))>>

(***************************************************************************)
(* strings.ToLower: an all-ASCII string has 'A'..'Z' folded byte by byte;  *)
(* any other string goes through strings.Map(unicode.ToLower, s), which    *)
(* decodes it rune by rune, reads a byte that starts no valid UTF-8        *)
(* sequence as U+FFFD, maps each rune and encodes the result.              *)
(***************************************************************************)
\* U+FFFD, utf8.RuneError
RuneError == 65533

IsCont(s, i) == i <= Len(s) /\ s[i] >= 128 /\ s[i] <= 191

\* utf8.DecodeRuneInString(s[i:]): [rune, size]
DecodeRune(s, i) ==
    LET b0 == s[i]
        b1 == IF i + 1 <= Len(s) THEN s[i + 1] ELSE 0
        b2 == IF i + 2 <= Len(s) THEN s[i + 2] ELSE 0
        b3 == IF i + 3 <= Len(s) THEN s[i + 3] ELSE 0
        lo == IF b0 = 224 THEN 160 ELSE IF b0 = 240 THEN 144 ELSE 128
        hi == IF b0 = 237 THEN 159 ELSE IF b0 = 244 THEN 143 ELSE 191
        second == i + 1 <= Len(s) /\ b1 >= lo /\ b1 <= hi
    IN IF b0 < 128 THEN [rune |-> b0, size |-> 1]
       ELSE IF b0 >= 194 /\ b0 <= 223 /\ second
       THEN [rune |-> (b0 - 192) * 64 + (b1 - 128), size |-> 2]
       ELSE IF b0 >= 224 /\ b0 <= 239 /\ second /\ IsCont(s, i + 2)
       THEN [rune |-> (b0 - 224) * 4096 + (b1 - 128) * 64 + (b2 - 128),
             size |-> 3]
       ELSE IF b0 >= 240 /\ b0 <= 244 /\ second /\ IsCont(s, i + 2)
               /\ IsCont(s, i + 3)
       THEN [rune |-> (b0 - 240) * 262144 + (b1 - 128) * 4096
                      + (b2 - 128) * 64 + (b3 - 128),
             size |-> 4]
       ELSE [rune |-> RuneError, size |-> 1]

\* utf8.EncodeRune
EncodeRune(r) ==
    IF r < 128 THEN <<r>>
    ELSE IF r < 2048 THEN <<192 + (r \div 64), 128 + (r % 64)>>
    ELSE IF r < 65536
    THEN <<224 + (r \div 4096), 128 + ((r \div 64) % 64), 128 + (r % 64)>>
    ELSE <<240 + (r \div 262144), 128 + ((r \div 4096) % 64),
           128 + ((r \div 64) % 64), 128 + (r % 64)>>

\* unicode.CaseRanges, the lower-case column: <<lo, hi, step, delta>> says
\* that the runes lo, lo + step, ... up to hi have the lower case rune + delta
LowerRanges ==
    <<<<65, 90, 1, 32>>, <<192, 214, 1, 32>>, <<216, 222, 1, 32>>,
      <<256, 302, 2, 1>>, <<304, 304, 1, -199>>, <<306, 310, 2, 1>>,
      <<313, 327, 2, 1>>, <<330, 374, 2, 1>>, <<376, 376, 1, -121>>,
      <<377, 381, 2, 1>>, <<385, 385, 1, 210>>, <<386, 388, 2, 1>>,
      <<390, 390, 1, 206>>, <<391, 391, 1, 1>>, <<393, 394, 1, 205>>,
      <<395, 395, 1, 1>>, <<398, 398, 1, 79>>, <<399, 399, 1, 202>>,
      <<400, 400, 1, 203>>, <<401, 401, 1, 1>>, <<403, 403, 1, 205>>,
      <<404, 404, 1, 207>>, <<406, 406, 1, 211>>, <<407, 407, 1, 209>>,
      <<408, 408, 1, 1>>, <<412, 412, 1, 211>>, <<413, 413, 1, 213>>,
      <<415, 415, 1, 214>>, <<416, 420, 2, 1>>, <<422, 422, 1, 218>>,
      <<423, 423, 1, 1>>, <<425, 425, 1, 218>>, <<428, 428, 1, 1>>,
      <<430, 430, 1, 218>>, <<431, 431, 1, 1>>, <<433, 434, 1, 217>>,
      <<435, 437, 2, 1>>, <<439, 439, 1, 219>>, <<440, 440, 1, 1>>,
      <<444, 444, 1, 1>>, <<452, 452, 1, 2>>, <<453, 453, 1, 1>>,
      <<455, 455, 1, 2>>, <<456, 456, 1, 1>>, <<458, 458, 1, 2>>,
      <<459, 475, 2, 1>>, <<478, 494, 2, 1>>, <<497, 497, 1, 2>>,
      <<498, 500, 2, 1>>, <<502, 502, 1, -97>>, <<503, 503, 1, -56>>,
      <<504, 542, 2, 1>>, <<544, 544, 1, -130>>, <<546, 562, 2, 1>>,
      <<570, 570, 1, 10795>>, <<571, 571, 1, 1>>, <<573, 573, 1, -163>>,
      <<574, 574, 1, 10792>>, <<577, 577, 1, 1>>, <<579, 579, 1, -195>>,
      <<580, 580, 1, 69>>, <<581, 581, 1, 71>>, <<582, 590, 2, 1>>,
      <<880, 882, 2, 1>>, <<886, 886, 1, 1>>, <<895, 895, 1, 116>>,
      <<902, 902, 1, 38>>, <<904, 906, 1, 37>>, <<908, 908, 1, 64>>,
      <<910, 911, 1, 63>>, <<913, 929, 1, 32>>, <<931, 939, 1, 32>>,
      <<975, 975, 1, 8>>, <<984, 1006, 2, 1>>, <<1012, 1012, 1, -60>>,
      <<1015, 1015, 1, 1>>, <<1017, 1017, 1, -7>>, <<1018, 1018, 1, 1>>,
      <<1021, 1023, 1, -130>>, <<1024, 1039, 1, 80>>, <<1040, 1071, 1, 32>>,
      <<1120, 1152, 2, 1>>, <<1162, 1214, 2, 1>>, <<1216, 1216, 1, 15>>,
      <<1217, 1229, 2, 1>>, <<1232, 1326, 2, 1>>, <<1329, 1366, 1, 48>>,
      <<4256, 4293, 1, 7264>>, <<4295, 4295, 1, 7264>>,
      <<4301, 4301, 1, 7264>>, <<5024, 5103, 1, 38864>>,
      <<5104, 5109, 1, 8>>, <<7312, 7354, 1, -3008>>,
      <<7357, 7359, 1, -3008>>, <<7680, 7828, 2, 1>>,
      <<7838, 7838, 1, -7615>>, <<7840, 7934, 2, 1>>, <<7944, 7951, 1, -8>>,
      <<7960, 7965, 1, -8>>, <<7976, 7983, 1, -8>>, <<7992, 7999, 1, -8>>,
      <<8008, 8013, 1, -8>>, <<8025, 8031, 2, -8>>, <<8040, 8047, 1, -8>>,
      <<8072, 8079, 1, -8>>, <<8088, 8095, 1, -8>>, <<8104, 8111, 1, -8>>,
      <<8120, 8121, 1, -8>>, <<8122, 8123, 1, -74>>, <<8124, 8124, 1, -9>>,
      <<8136, 8139, 1, -86>>, <<8140, 8140, 1, -9>>, <<8152, 8153, 1, -8>>,
      <<8154, 8155, 1, -100>>, <<8168, 8169, 1, -8>>,
      <<8170, 8171, 1, -112>>, <<8172, 8172, 1, -7>>,
      <<8184, 8185, 1, -128>>, <<8186, 8187, 1, -126>>,
      <<8188, 8188, 1, -9>>, <<8486, 8486, 1, -7517>>,
      <<8490, 8490, 1, -8383>>, <<8491, 8491, 1, -8262>>,
      <<8498, 8498, 1, 28>>, <<8544, 8559, 1, 16>>, <<8579, 8579, 1, 1>>,
      <<9398, 9423, 1, 26>>, <<11264, 11311, 1, 48>>, <<11360, 11360, 1, 1>>,
      <<11362, 11362, 1, -10743>>, <<11363, 11363, 1, -3814>>,
      <<11364, 11364, 1, -10727>>, <<11367, 11371, 2, 1>>,
      <<11373, 11373, 1, -10780>>, <<11374, 11374, 1, -10749>>,
      <<11375, 11375, 1, -10783>>, <<11376, 11376, 1, -10782>>,
      <<11378, 11378, 1, 1>>, <<11381, 11381, 1, 1>>,
      <<11390, 11391, 1, -10815>>, <<11392, 11490, 2, 1>>,
      <<11499, 11501, 2, 1>>, <<11506, 11506, 1, 1>>, <<42560, 42604, 2, 1>>,
      <<42624, 42650, 2, 1>>, <<42786, 42798, 2, 1>>, <<42802, 42862, 2, 1>>,
      <<42873, 42875, 2, 1>>, <<42877, 42877, 1, -35332>>,
      <<42878, 42886, 2, 1>>, <<42891, 42891, 1, 1>>,
      <<42893, 42893, 1, -42280>>, <<42896, 42898, 2, 1>>,
      <<42902, 42920, 2, 1>>, <<42922, 42922, 1, -42308>>,
      <<42923, 42923, 1, -42319>>, <<42924, 42924, 1, -42315>>,
      <<42925, 42925, 1, -42305>>, <<42926, 42926, 1, -42308>>,
      <<42928, 42928, 1, -42258>>, <<42929, 42929, 1, -42282>>,
      <<42930, 42930, 1, -42261>>, <<42931, 42931, 1, 928>>,
      <<42932, 42946, 2, 1>>, <<42948, 42948, 1, -48>>,
      <<42949, 42949, 1, -42307>>, <<42950, 42950, 1, -35384>>,
      <<42951, 42953, 2, 1>>, <<42960, 42960, 1, 1>>, <<42966, 42968, 2, 1>>,
      <<42997, 42997, 1, 1>>, <<65313, 65338, 1, 32>>,
      <<66560, 66599, 1, 40>>, <<66736, 66771, 1, 40>>,
      <<66928, 66964, 2, 39>>, <<66929, 66938, 1, 39>>,
      <<66941, 66954, 1, 39>>, <<66957, 66962, 1, 39>>,
      <<66965, 66965, 1, 39>>, <<68736, 68786, 1, 64>>,
      <<71840, 71871, 1, 32>>, <<93760, 93791, 1, 32>>,
      <<125184, 125217, 1, 34>>>>

\* unicode.ToLower(r)
LowerRune(r) ==
    IF \E i \in 1..Len(LowerRanges) :
          /\ r >= LowerRanges[i][1]
          /\ r <= LowerRanges[i][2]
          /\ (r - LowerRanges[i][1]) % LowerRanges[i][3] = 0
    THEN LET i == CHOOSE k \in 1..Len(LowerRanges) :
                     /\ r >= LowerRanges[k][1]
                     /\ r <= LowerRanges[k][2]
                     /\ (r - LowerRanges[k][1]) % LowerRanges[k][3] = 0
         IN r + LowerRanges[i][4]
    ELSE r

\* strings.Map(unicode.ToLower, s) from byte i on
RECURSIVE MapLower(_, _)
MapLower(s, i) ==
    IF i > Len(s) THEN <<>>
    ELSE LET d == DecodeRune(s, i)
         IN EncodeRune(LowerRune(d.rune)) \o MapLower(s, i + d.size)

ToLower(s) ==
    IF \A i \in 1..Len(s) : s[i] < 128
    THEN [i \in 1..Len(s) |->
            IF s[i] >= 65 /\ s[i] <= 90 THEN s[i] + 32 ELSE s[i]]
    ELSE MapLower(s, 1)

(***************************************************************************)
(* strconv.Atoi                                                            *)
(***************************************************************************)
IsDigit(c) == c >= 48 /\ c <= 57

RECURSIVE DecValue(_)
DecValue(s) ==
    IF Len(s) = 0 THEN 0
    ELSE 10 * DecValue(SubSeq(s, 1, Len(s)-1)) + (s[Len(s)] - 48)

\* the digits of s without its leading zeros
RECURSIVE TrimZeros(_)
TrimZeros(s) ==
    IF Len(s) > 0 /\ s[1] = 48 THEN TrimZeros(Tail(s)) ELSE s

\* "9223372036854775807", the largest int (64 bits), and the magnitude of the
\* smallest, as digit strings
MaxIntDigits == <<57,50,50,51,51,55,50,48,51,54,56,53,52,55,55,53,56,48,55>>
MinIntDigits == <<57,50,50,51,51,55,50,48,51,54,56,53,52,55,55,53,56,48,56>>

\* the digit string d stands for a number above the one lim stands for
DigitsAbove(d, lim) ==
    LET t == TrimZeros(d)
    IN \/ Len(t) > Len(lim)
       \/ /\ Len(t) = Len(lim)
          /\ \E i \in 1..Len(t) :
                /\ t[i] > lim[i]
                /\ \A j \in 1..(i - 1) : t[j] = lim[j]

\* strconv.Atoi(s): [err, val]; an optional sign followed by one or more
\* digits, whose value fits an int
Atoi(s) ==
    LET signed == Len(s) > 0 /\ s[1] \in {43, 45}
        digits == IF signed THEN SubSeq(s, 2, Len(s)) ELSE s
        neg == signed /\ s[1] = 45
    IN IF Len(digits) = 0 \/ \E i \in 1..Len(digits) : ~IsDigit(digits[i])
       THEN [err |-> TRUE, val |-> 0]
       ELSE IF DigitsAbove(digits, IF neg THEN MinIntDigits ELSE MaxIntDigits)
       THEN [err |-> TRUE, val |-> 0]
       ELSE [err |-> FALSE,
             val |-> IF signed /\ s[1] = 45 THEN 0 - DecValue(digits)
                     ELSE DecValue(digits)]

(***************************************************************************)
(* encoding/hex.DecodeString                                               *)
(***************************************************************************)
IsHex(c) == IsDigit(c) \/ (c >= 97 /\ c <= 102) \/ (c >= 65 /\ c <= 70)

HexVal(c) ==
    IF IsDigit(c) THEN c - 48
    ELSE IF c >= 97 THEN c - 97 + 10
    ELSE c - 65 + 10

\* hex.DecodeString dropping a trailing half byte instead of failing
HexDecodeStringLenient(s) ==
    IF \E i \in 1..Len(s) : ~IsHex(s[i])
    THEN [err |-> TRUE, bytes |-> <<>>]
    ELSE [err |-> FALSE,
          bytes |-> [i \in 1..(Len(s) \div 2) |->
                        16 * HexVal(s[2*i-1]) + HexVal(s[2*i])]]

\* hex.DecodeString(s): [err, bytes]; fails on a non-hex byte or odd length
HexDecodeString(s) ==
    IF (\E i \in 1..Len(s) : ~IsHex(s[i])) \/ Len(s) % 2 = 1
    THEN [err |-> TRUE, bytes |-> <<>>]
    ELSE [err |-> FALSE,
          bytes |-> [i \in 1..(Len(s) \div 2) |->
                        16 * HexVal(s[2*i-1]) + HexVal(s[2*i])]]

(***************************************************************************)
(* encoding/ascii85.Encode                                                 *)
(***************************************************************************)
\* ascii85.MaxEncodedLen(n)
MaxEncodedLen(n) == ((n + 3) \div 4) * 5

\* The 32-bit big-endian word v of the first (up to four) bytes of src, kept
\* as its four bytes (short groups are padded with zero bytes).
Word32(src) ==
    [i \in 1..4 |-> IF i <= Len(src) THEN src[i] ELSE 0]

\* v / 85 and v % 85 by long division over the four bytes of v
RECURSIVE DivMod85(_, _, _)
DivMod85(w, q, r) ==
    IF Len(w) = 0 THEN [quot |-> q, rem |-> r]
    ELSE LET cur == r * 256 + Head(w)
         IN DivMod85(Tail(w), Append(q, cur \div 85), cur % 85)

\* "for i := 4; i >= 0; i-- { dst[i] = '!' + byte(v%85); v /= 85 }"
RECURSIVE Digits85(_, _)
Digits85(w, n) ==
    IF n = 0 THEN <<>>
    ELSE LET d == DivMod85(w, <<>>, 0)
         IN Append(Digits85(d.quot, n - 1), 33 + d.rem)

RECURSIVE Ascii85Encode(_)
Ascii85Encode(src) ==
    IF Len(src) = 0 THEN <<>>
    ELSE LET v == Word32(src)
         IN IF v = <<0, 0, 0, 0>> /\ Len(src) >= 4
            THEN <<122>> \o Ascii85Encode(SubSeq(src, 5, Len(src)))
            ELSE IF Len(src) < 4
            THEN SubSeq(Digits85(v, 5), 1, 5 - (4 - Len(src)))
            ELSE Digits85(v, 5) \o Ascii85Encode(SubSeq(src, 5, Len(src)))

\* utf8.ValidString on a byte sequence of the model: every byte is ASCII
ValidString(s) == \A i \in 1..Len(s) : s[i] < 128

(***************************************************************************)
(* stringToDate                                                            *)
(***************************************************************************)
\* time.longMonthNames
MonthNames ==
    <<<<74, 97, 110, 117, 97, 114, 121>>,
      <<70, 101, 98, 114, 117, 97, 114, 121>>,
      <<77, 97, 114, 99, 104>>,
      <<65, 112, 114, 105, 108>>,
      <<77, 97, 121>>,
      <<74, 117, 110, 101>>,
      <<74, 117, 108, 121>>,
      <<65, 117, 103, 117, 115, 116>>,
      <<83, 101, 112, 116, 101, 109, 98, 101, 114>>,
      <<79, 99, 116, 111, 98, 101, 114>>,
      <<78, 111, 118, 101, 109, 98, 101, 114>>,
      <<68, 101, 99, 101, 109, 98, 101, 114>>>>

\* time.daysIn(m, year) for a leap year
MonthDays ==
    [m \in 1..12 |->
        IF m = 2 THEN 29 ELSE IF m \in {4, 6, 9, 11} THEN 30 ELSE 31]

IsLeap(y) == (y % 4 = 0 /\ y % 100 # 0) \/ y % 400 = 0

\* c |= 'a' - 'A'
FoldBit(c) == IF (c \div 32) % 2 = 1 THEN c ELSE c + 32

\* time.match(s1, s2): equal, ignoring the case of ASCII letters
Match(s1, s2) ==
    \A i \in 1..Len(s1) :
        \/ s1[i] = s2[i]
        \/ /\ FoldBit(s1[i]) = FoldBit(s2[i])
           /\ FoldBit(s1[i]) >= 97
           /\ FoldBit(s1[i]) <= 122

\* time.lookup(longMonthNames, val): the first month whose name starts val,
\* 0 when there is none
Lookup(val) ==
    LET M == {i \in 1..12 :
                /\ Len(val) >= Len(MonthNames[i])
                /\ Match(SubSeq(val, 1, Len(MonthNames[i])), MonthNames[i])}
    IN IF M = {} THEN 0 ELSE CHOOSE i \in M : \A k \in M : i <= k

\* time.cutspace
RECURSIVE CutSpace(_)
CutSpace(s) == IF Len(s) > 0 /\ s[1] = 32 THEN CutSpace(Tail(s)) ELSE s

\* time.skip(value, " "): [err, rest]; a space of the layout stands for any
\* number of spaces, or for the end of the value
Skip(value) ==
    IF Len(value) > 0 /\ value[1] # 32
    THEN [err |-> TRUE, rest |-> value]
    ELSE [err |-> FALSE, rest |-> CutSpace(value)]

\* time.getnum(s, false): [err, val, rest]; one or two digits
GetNum(s) ==
    IF Len(s) = 0 \/ ~IsDigit(s[1]) THEN [err |-> TRUE, val |-> 0, rest |-> s]
    ELSE IF Len(s) = 1 \/ ~IsDigit(s[2])
    THEN [err |-> FALSE, val |-> s[1] - 48, rest |-> Tail(s)]
    ELSE [err |-> FALSE, val |-> (s[1] - 48) * 10 + (s[2] - 48),
          rest |-> SubSeq(s, 3, Len(s))]

\* the year of layout "2006": [err, val, rest]; exactly four digits
GetYear(s) ==
    IF Len(s) < 4 \/ \E i \in 1..4 : ~IsDigit(s[i])
    THEN [err |-> TRUE, val |-> 0, rest |-> s]
    ELSE [err |-> FALSE, val |-> DecValue(SubSeq(s, 1, 4)),
          rest |-> SubSeq(s, 5, Len(s))]

\* time.Parse("January 2 2006", d): [err, time]; time = <<year, month, day>>.
\* The layout is consumed element by element, each stage working on what the
\* stage before left; "CHOOSE r \in {F(x) : x \in {e}} : TRUE" is F(e) with e
\* evaluated once.
BadTime == [err |-> TRUE, time |-> <<>>]

\* the end of the layout (no text may be left) and the validation of the day
\* of the month
ParseEnd(m, day, year) ==
    IF year.err \/ Len(year.rest) # 0 THEN BadTime
    ELSE IF day.val < 1 \/ day.val > MonthDays[m] THEN BadTime
    ELSE IF m = 2 /\ day.val = 29 /\ ~IsLeap(year.val) THEN BadTime
    ELSE [err |-> FALSE, time |-> <<year.val, m, day.val>>]

\* " 2006" of the layout, on what the day left
ParseYear(m, day) ==
    LET s == Skip(day.rest)
    IN IF s.err THEN BadTime
       ELSE CHOOSE r \in {ParseEnd(m, day, y) : y \in {GetYear(s.rest)}} : TRUE

\* " 2" of the layout, on what the name of month m left
ParseDay(d, m) ==
    LET s == Skip(SubSeq(d, Len(MonthNames[m]) + 1, Len(d)))
    IN IF s.err THEN BadTime
       ELSE CHOOSE r \in {IF n.err THEN BadTime ELSE ParseYear(m, n) :
                            n \in {GetNum(s.rest)}} : TRUE

Parse(d) ==
    CHOOSE r \in {IF m = 0 THEN BadTime ELSE ParseDay(d, m) :
                    m \in {Lookup(d)}} : TRUE

\* time.Parse(DATE_FORMAT, date) succeeds
DateParses(d) == ~Parse(d).err

\* stringToDate does not call log.Fatal
stringToDate(d) == d # <<>> /\ DateParses(d)

(***************************************************************************)
(* The per-line body of the scan loop: parse and encode one line.          *)
(* Result: [err, fatal, row]; err = the line is counted and skipped,       *)
(* fatal = log.Fatal is called, row = the row appended to rowData.         *)
(***************************************************************************)
\* CountLine without the case folding of the key
CountLineNoFold(l) ==
    LET d == SplitN(l)
    IN IF Len(d) # 2 THEN [err |-> TRUE, fatal |-> FALSE, row |-> <<>>]
       ELSE IF Atoi(d[2]).err THEN [err |-> TRUE, fatal |-> FALSE, row |-> <<>>]
       ELSE [err |-> FALSE, fatal |-> FALSE,
             row |-> [hash |-> d[1], count |-> Atoi(d[2]).val]]

\* hibpEtl (count form): SplitN, Atoi, ToLower, hibpData{hash, numCount}
CountLine(l) ==
    LET d == SplitN(l)
    IN IF Len(d) # 2 THEN [err |-> TRUE, fatal |-> FALSE, row |-> <<>>]
       ELSE IF Atoi(d[2]).err THEN [err |-> TRUE, fatal |-> FALSE, row |-> <<>>]
       ELSE [err |-> FALSE, fatal |-> FALSE,
             row |-> [hash |-> ToLower(d[1]), count |-> Atoi(d[2]).val]]

\* hibpPasswordsEtl: SplitN, ToLower, hibpPasswordData{hash, password}
PasswordLine(l) ==
    LET d == SplitN(l)
    IN IF Len(d) # 2 THEN [err |-> TRUE, fatal |-> FALSE, row |-> <<>>]
       ELSE [err |-> FALSE, fatal |-> FALSE,
             row |-> [hash |-> ToLower(d[1]), password |-> d[2]]]

\* hibpEtl (binary re-encode form): SplitN, hex.DecodeString, ascii85.Encode
ReencodeLine(l) ==
    LET d == SplitN(l)
    IN IF Len(d) # 2 THEN [err |-> TRUE, fatal |-> FALSE, row |-> <<>>]
       ELSE LET h == HexDecodeString(d[1])
            IN IF h.err THEN [err |-> TRUE, fatal |-> FALSE, row |-> <<>>]
               ELSE LET hibp_id == Ascii85Encode(h.bytes)
                        hibp == SubSeq(hibp_id, 1, Len(hibp_id))
                    IN [err |-> FALSE, fatal |-> ~ValidString(hibp),
                        row |-> [hash |-> hibp]]

ParseLine(m, l) ==
    IF m = "count" THEN CountLine(l)
    ELSE IF m = "password" THEN PasswordLine(l)
    ELSE ReencodeLine(l)

(***************************************************************************)
(* The destination table hibp: a function from hibp_id to the record       *)
(* [password, count]; a nullable column is <<>> (NULL) or <<v>>.           *)
(***************************************************************************)
\* the count upsert adding the new count to the stored one on conflict
UpsertCountRowAdds(st, r) ==
    [k \in DOMAIN st \cup {r.hash} |->
        IF k = r.hash
        THEN [password |-> IF k \in DOMAIN st THEN st[k].password ELSE <<>>,
              count |-> IF k \in DOMAIN st /\ st[k].count # <<>>
                        THEN <<st[k].count[1] + r.count>> ELSE <<r.count>>]
        ELSE st[k]]

\* the count upsert replacing the whole record on conflict
UpsertCountRowReplaces(st, r) ==
    [k \in DOMAIN st \cup {r.hash} |->
        IF k = r.hash
        THEN [password |-> <<>>, count |-> <<r.count>>]
        ELSE st[k]]

\* INSERT ... (hibp_id, count) ... ON CONFLICT DO UPDATE SET count = EXCLUDED.count
UpsertCountRow(st, r) ==
    [k \in DOMAIN st \cup {r.hash} |->
        IF k = r.hash
        THEN [password |-> IF k \in DOMAIN st THEN st[k].password ELSE <<>>,
              count |-> <<r.count>>]
        ELSE st[k]]

\* the password upsert replacing the whole record on conflict
UpsertPasswordRowOverwrites(st, r) ==
    [k \in DOMAIN st \cup {r.hash} |->
        IF k = r.hash
        THEN [password |-> <<r.password>>, count |-> <<>>]
        ELSE st[k]]

\* INSERT ... (hibp_id, password) ... ON CONFLICT DO UPDATE SET password = EXCLUDED.password
UpsertPasswordRow(st, r) ==
    [k \in DOMAIN st \cup {r.hash} |->
        IF k = r.hash
        THEN [password |-> <<r.password>>,
              count |-> IF k \in DOMAIN st THEN st[k].count ELSE <<>>]
        ELSE st[k]]

\* INSERT ... (hibp_id) ... ON CONFLICT (hibp_id) DO NOTHING
InsertIdRow(st, r) ==
    [k \in DOMAIN st \cup {r.hash} |->
        IF k \in DOMAIN st THEN st[k]
        ELSE [password |-> <<>>, count |-> <<>>]]

UpsertRow(m, st, r) ==
    IF m = "count" THEN UpsertCountRow(st, r)
    ELSE IF m = "password" THEN UpsertPasswordRow(st, r)
    ELSE InsertIdRow(st, r)

RECURSIVE UpsertRows(_, _, _)
UpsertRows(m, st, rows) ==
    IF Len(rows) = 0 THEN st
    ELSE UpsertRows(m, UpsertRow(m, st, Head(rows)), Tail(rows))

\* The store rejects the statement whatever its own condition:
\*  - "VALUES" followed by no tuple is a syntax error;
\*  - ON CONFLICT DO UPDATE refuses to affect the same row twice.
StoreRejects(m, rows) ==
    \/ Len(rows) = 0
    \/ /\ m \in {"count", "password"}
       /\ \E i, j \in 1..Len(rows) : i < j /\ rows[i].hash = rows[j].hash

\* the batch writer counting one error per row of a rejected batch
hibpProcessRowDataBatchPerRow(m, st, rows, extFail) ==
    LET err == StoreRejects(m, rows) \/ extFail
    IN [errors |-> IF err THEN Len(rows) ELSE 0,
        err |-> err,
        store |-> IF err THEN st ELSE UpsertRows(m, st, rows)]

\* the batch writer logging a rejected batch without counting it
hibpProcessRowDataBatchUncounted(m, st, rows, extFail) ==
    LET err == StoreRejects(m, rows) \/ extFail
    IN [errors |-> 0,
        err |-> err,
        store |-> IF err THEN st ELSE UpsertRows(m, st, rows)]

\* hibpProcessRowDataBatch / hibpPasswordProcessRowDataBatch: builds one
\* statement from the rows whatever their number, executes it, and returns
\* 1 when Exec reports an error, else 0.  extFail: the store fails for an
\* external reason (connection loss, constraint, timeout).
hibpProcessRowDataBatch(m, st, rows, extFail) ==
    LET err == StoreRejects(m, rows) \/ extFail
    IN [errors |-> IF err THEN 1 ELSE 0,
        err |-> err,
        store |-> IF err THEN st ELSE UpsertRows(m, st, rows)]

\* the source name each pipeline records in the imports table
SourceName(m) ==
    IF m = "password" THEN "pwned-passwords-plain" ELSE "pwned-passwords-sha1"

(***************************************************************************)
(* State                                                                   *)
(***************************************************************************)
VARIABLES
    mode,        \* which pipeline runs
    BATCH_SIZE,  \* the batch size of the run
    date,        \* the hibp-date argument, then the time parsed from it
    pc,          \* position of the run
    line,        \* s.Text() of the last scanned line
    data,        \* the split of the last scanned line
    nread,       \* number of lines scanned
    count,       \* accepted rows
    errors,      \* the run's error counter
    rowData,     \* the batch buffer
    store,       \* table hibp
    imports,     \* table imports
    execLog,     \* statements sent to the store, in order
    rowErrors,   \* lines rejected by the parser or encoder
    faults,      \* statements rejected for external reasons
    returned,    \* the value returned to the caller, <<>> before return
    fatal,       \* the condition log.Fatal was called for, "" when none
    onScenarioA, \* the lines scanned so far are a prefix of ScenarioA
    accepted,    \* the rows built from accepted lines, in input order
    file,        \* the lines of the input file when it is fixed in advance
    run,         \* the number of the run over that file, 1 or 2
    first,       \* <<[mode, store]>> of the completed first run, else <<>>
    peer         \* <<the run-local state of a second process>>, else <<>>

vars == <<mode, BATCH_SIZE, date, pc, line, data, nread, count, errors,
          rowData, store, imports, execLog, rowErrors, faults, returned,
          fatal, onScenarioA, accepted, file, run, first, peer>>

\* the variables that no step of a single run changes
planVars == <<file, run, first, peer>>

\* the empty table
EmptyStore == [k \in {} |-> <<>>]

Init ==
    /\ mode \in Modes
    /\ BATCH_SIZE \in 1..MaxBatch
    /\ date \in Dates
    /\ pc = "Init"
    /\ line = <<>>
    /\ data = <<>>
    /\ nread = 0
    /\ count = 0
    /\ errors = 0
    /\ rowData = <<>>
    /\ store = EmptyStore
    /\ imports = <<>>
    /\ execLog = <<>>
    /\ rowErrors = 0
    /\ faults = 0
    /\ returned = <<>>
    /\ fatal = ""
    /\ onScenarioA = TRUE
    /\ accepted = <<>>
    /\ file = <<>>
    /\ run = 1
    /\ first = <<>>
    /\ peer = <<>>

\* time := stringToDate(date): from here on the run uses the time only
StringToDate ==
    /\ pc = "Init"
    /\ pc' = IF stringToDate(date) THEN "Connect" ELSE "Aborted"
    /\ fatal' = IF stringToDate(date) THEN "" ELSE "date"
    /\ date' = IF stringToDate(date) THEN Parse(date).time ELSE date
    /\ UNCHANGED <<mode, BATCH_SIZE, line, data, nread, count, errors,
                   rowData, store, imports, execLog, rowErrors, faults, returned,
                   onScenarioA, accepted, planVars>>

\* pgxpool.Connect; log.Fatal on error
Connect ==
    /\ pc = "Connect"
    /\ \E ok \in BOOLEAN :
        /\ pc' = IF ok THEN "Schema" ELSE "Aborted"
        /\ fatal' = IF ok THEN "" ELSE "connect"
    /\ UNCHANGED <<mode, BATCH_SIZE, date, line, data, nread, count, errors,
                   rowData, store, imports, execLog, rowErrors, faults, returned,
                   onScenarioA, accepted, planVars>>

\* dbSchemaCreate(HIBP_TABLE_SCHEMA); dbSchemaCreate(IMPORT_TABLE_SCHEMA)
SchemaCreate ==
    /\ pc = "Schema"
    /\ \E ok \in BOOLEAN :
        /\ pc' = IF ok THEN "Open" ELSE "Aborted"
        /\ fatal' = IF ok THEN "" ELSE "schema"
    /\ UNCHANGED <<mode, BATCH_SIZE, date, line, data, nread, count, errors,
                   rowData, store, imports, execLog, rowErrors, faults, returned,
                   onScenarioA, accepted, planVars>>

\* os.Open(filename); log.Fatal on error
OpenFile ==
    /\ pc = "Open"
    /\ \E ok \in BOOLEAN :
        /\ pc' = IF ok THEN "Streaming" ELSE "Aborted"
        /\ fatal' = IF ok THEN "" ELSE "open"
    /\ UNCHANGED <<mode, BATCH_SIZE, date, line, data, nread, count, errors,
                   rowData, store, imports, execLog, rowErrors, faults, returned,
                   onScenarioA, accepted, planVars>>

\* the flush trigger firing on every row once the count reached the batch size
ShouldFlushAtLeast(c, b) == c >= b

\* the flush trigger computed on the lines scanned instead of the rows accepted
ShouldFlushOnLines(c, b) == (nread + 1) % b = 0

\* "if count%BATCH_SIZE == 0": the flush trigger, on the accepted-row count
ShouldFlush(c, b) == c % b = 0

\* the buffer keeping its rows after a flush
ResetBufferKeeps(buf) == buf

\* "rowData = make([]hibpData, 0, BATCH_SIZE)": a fresh buffer after a flush
ResetBuffer(buf) == <<>>

\* the pipeline whose batch writer built row r
RowMode(r) ==
    IF "count" \in DOMAIN r THEN "count"
    ELSE IF "password" \in DOMAIN r THEN "password"
    ELSE "reencode"

\* rows a and rows b name two identifiers in opposite order
OppositeOrder(a, b) ==
    \E i, j \in 1..Len(a), k, l \in 1..Len(b) :
        /\ i < j
        /\ k < l
        /\ a[i].hash # a[j].hash
        /\ a[i].hash = b[l].hash
        /\ a[j].hash = b[k].hash

\* dbPool.Exec of a multi-row upsert while the other process executes one:
\* the store locks the rows of a statement one at a time, in VALUES order,
\* until the statement ends, so two statements naming two identifiers in
\* opposite order can wait for each other; the store then aborts one of them
\* and Exec returns an error.  The two statements overlap in time exactly
\* when they are next to each other in the store's order: the batch of rows
\* can be the aborted one when the last statement of the store is a committed
\* batch of the other process in the opposite order.
Deadlocks(m, rows) ==
    /\ peer # <<>>
    /\ Len(execLog) > 0
    /\ LET e == execLog[Len(execLog)]
       IN /\ e.stmt = "hibp"
          /\ ~e.err
          /\ Len(e.rows) > 0
          /\ RowMode(e.rows[1]) # m
          /\ OppositeOrder(rows, e.rows)

\* the body of one iteration of "for s.Scan()" on line l; extFail: the store
\* rejects the batch statement of this iteration (if any) for a reason that is
\* not in the statement itself
ScanLineWith(l, extFail) ==
    LET p == ParseLine(mode, l)
        buf == Append(rowData, p.row)
        w == hibpProcessRowDataBatch(mode, store, buf, extFail)
    IN /\ line' = l
       /\ data' = SplitN(l)
       /\ nread' = nread + 1
       /\ onScenarioA' = (/\ onScenarioA
                          /\ nread < Len(ScenarioA)
                          /\ l = ScenarioA[nread + 1])
       /\ IF p.err
          THEN /\ errors' = errors + 1
               /\ rowErrors' = rowErrors + 1
               /\ extFail = FALSE
               /\ UNCHANGED <<pc, fatal, count, rowData, store, execLog,
                              faults, accepted>>
          ELSE IF p.fatal
          THEN /\ pc' = "Aborted"
               /\ fatal' = "encoding"
               /\ extFail = FALSE
               /\ UNCHANGED <<count, errors, rowErrors, rowData, store,
                              execLog, faults, accepted>>
          ELSE /\ count' = count + 1
               /\ accepted' = Append(accepted, p.row)
               /\ IF ShouldFlush(count + 1, BATCH_SIZE)
                  THEN /\ extFail =>
                              /\ faults < MaxFaults \/ Deadlocks(mode, buf)
                              /\ ~StoreRejects(mode, buf)
                       /\ faults' = IF extFail /\ ~Deadlocks(mode, buf)
                                    THEN faults + 1 ELSE faults
                       /\ errors' = errors + w.errors
                       /\ store' = w.store
                       /\ execLog' = Append(execLog,
                              [stmt |-> "hibp", rows |-> buf, err |-> w.err])
                       /\ rowData' = ResetBuffer(buf)
                  ELSE /\ extFail = FALSE
                       /\ rowData' = buf
                       /\ UNCHANGED <<errors, store, execLog, faults>>
               /\ UNCHANGED <<pc, fatal, rowErrors>>
       /\ UNCHANGED <<mode, BATCH_SIZE, date, imports, returned, planVars>>

\* one iteration of "for s.Scan()": the scanner delivers some line
ScanLine ==
    /\ pc = "Streaming"
    /\ nread < MaxLines
    /\ \E l \in LinesOf(mode), extFail \in BOOLEAN : ScanLineWith(l, extFail)

\* the end of the scan loop without the log.Fatal on a read error
ScanStopIgnoresErr ==
    /\ pc = "Streaming"
    /\ \E readErr \in BOOLEAN :
        /\ pc' = "Flushing"
        /\ fatal' = IF readErr THEN "read" ELSE ""
    /\ UNCHANGED <<mode, BATCH_SIZE, date, line, data, nread, count, errors,
                   rowData, store, imports, execLog, rowErrors, faults, returned,
                   onScenarioA, accepted, planVars>>

\* the end of the scan loop going to the ledger without the final flush state
ScanStopSkipsFlush ==
    /\ pc = "Streaming"
    /\ \E readErr \in BOOLEAN :
        /\ pc' = IF readErr THEN "Aborted" ELSE "Logging"
        /\ fatal' = IF readErr THEN "read" ELSE ""
    /\ UNCHANGED <<mode, BATCH_SIZE, date, line, data, nread, count, errors,
                   rowData, store, imports, execLog, rowErrors, faults, returned,
                   onScenarioA, accepted, planVars>>

\* the end of the scan loop flushing the pending buffer before the read error
\* is examined
ScanStopFlushesOnErr ==
    /\ pc = "Streaming"
    /\ \E readErr \in BOOLEAN :
        LET w == hibpProcessRowDataBatch(mode, store, rowData, FALSE)
        IN /\ pc' = IF readErr THEN "Aborted" ELSE "Flushing"
           /\ fatal' = IF readErr THEN "read" ELSE ""
           /\ errors' = IF readErr THEN errors + w.errors ELSE errors
           /\ store' = IF readErr THEN w.store ELSE store
           /\ execLog' = IF readErr
                         THEN Append(execLog, [stmt |-> "hibp", rows |-> rowData,
                                               err |-> w.err])
                         ELSE execLog
    /\ UNCHANGED <<mode, BATCH_SIZE, date, line, data, nread, count,
                   rowData, imports, rowErrors, faults, returned,
                   onScenarioA, accepted, planVars>>

\* s.Scan() returns false; err = s.Err(); log.Fatal on error
ScanStop ==
    /\ pc = "Streaming"
    /\ \E readErr \in BOOLEAN :
        /\ pc' = IF readErr THEN "Aborted" ELSE "Flushing"
        /\ fatal' = IF readErr THEN "read" ELSE ""
    /\ UNCHANGED <<mode, BATCH_SIZE, date, line, data, nread, count, errors,
                   rowData, store, imports, execLog, rowErrors, faults, returned,
                   onScenarioA, accepted, planVars>>

\* the run going from the scan loop to the ledger without the final flush
FinalFlushSkipped ==
    /\ pc = "Flushing"
    /\ pc' = "Logging"
    /\ UNCHANGED <<mode, BATCH_SIZE, date, line, data, nread, count, errors,
                   rowData, store, imports, execLog, rowErrors, faults, returned,
                   fatal, onScenarioA, accepted, planVars>>

\* errors += hibpProcessRowDataBatch(rowData, dbPool) after the loop
FinalFlush ==
    /\ pc = "Flushing"
    /\ \E extFail \in BOOLEAN :
        LET w == hibpProcessRowDataBatch(mode, store, rowData, extFail)
        IN /\ extFail =>
                /\ faults < MaxFaults \/ Deadlocks(mode, rowData)
                /\ ~StoreRejects(mode, rowData)
           /\ faults' = IF extFail /\ ~Deadlocks(mode, rowData)
                        THEN faults + 1 ELSE faults
           /\ errors' = errors + w.errors
           /\ store' = w.store
           /\ execLog' = Append(execLog,
                  [stmt |-> "hibp", rows |-> rowData, err |-> w.err])
    /\ pc' = "Logging"
    /\ UNCHANGED <<mode, BATCH_SIZE, date, line, data, nread, count, rowData,
                   imports, rowErrors, returned, fatal, onScenarioA, accepted, planVars>>

\* the run returning the number of rows of the batches the store accepted
LogImportReturnsStored ==
    /\ pc = "Logging"
    /\ \E extFail \in BOOLEAN :
        LET state == IF errors > 0 THEN "error" ELSE "done"
            entry == [name |-> SourceName(mode), state |-> state,
                      import_date |-> date]
        IN /\ extFail => faults < MaxFaults
           /\ faults' = IF extFail THEN faults + 1 ELSE faults
           /\ imports' = IF extFail THEN imports ELSE Append(imports, entry)
           /\ execLog' = Append(execLog,
                  [stmt |-> "imports", rows |-> <<entry>>, err |-> extFail])
    /\ returned' = <<count - BATCH_SIZE * (errors - rowErrors)>>
    /\ pc' = "Done"
    /\ UNCHANGED <<mode, BATCH_SIZE, date, line, data, nread, count, errors,
                   rowData, store, rowErrors, fatal, onScenarioA, accepted,
                   planVars>>

\* state selection, dbLogImportData and "return count"
LogImport ==
    /\ pc = "Logging"
    /\ \E extFail \in BOOLEAN :
        LET state == IF errors > 0 THEN "error" ELSE "done"
            entry == [name |-> SourceName(mode), state |-> state,
                      import_date |-> date]
        IN /\ extFail => faults < MaxFaults
           /\ faults' = IF extFail THEN faults + 1 ELSE faults
           /\ imports' = IF extFail THEN imports ELSE Append(imports, entry)
           /\ execLog' = Append(execLog,
                  [stmt |-> "imports", rows |-> <<entry>>, err |-> extFail])
    /\ returned' = <<count>>
    /\ pc' = "Done"
    /\ UNCHANGED <<mode, BATCH_SIZE, date, line, data, nread, count, errors,
                   rowData, store, rowErrors, fatal, onScenarioA, accepted, planVars>>

Next ==
    \/ StringToDate
    \/ Connect
    \/ SchemaCreate
    \/ OpenFile
    \/ ScanLine
    \/ ScanStop
    \/ FinalFlush
    \/ LogImport

Spec == Init /\ [][Next]_vars

(***************************************************************************)
(* Two runs over one input file against the same destination: the file is  *)
(* fixed in advance, the first run starts on the empty table and the       *)
(* second run, of any of the three pipelines, starts on what the first     *)
(* left.                                                                   *)
(***************************************************************************)
\* longest input file of the two-run specification
MaxFileLen == 3

\* "ab:1"
LineCountOne == <<97, 98, 58, 49>>
\* "ab:2"
LineCountTwo == <<97, 98, 58, 50>>

FileLines == {LineCountOne, LineCountTwo, LineValidB, LineNoSep}

Files == UNION {[1..n -> FileLines] : n \in 0..MaxFileLen}

InitTwice ==
    /\ mode \in Modes
    /\ BATCH_SIZE \in 1..MaxBatch
    /\ date \in Dates
    /\ pc = "Init"
    /\ line = <<>>
    /\ data = <<>>
    /\ nread = 0
    /\ count = 0
    /\ errors = 0
    /\ rowData = <<>>
    /\ store = EmptyStore
    /\ imports = <<>>
    /\ execLog = <<>>
    /\ rowErrors = 0
    /\ faults = 0
    /\ returned = <<>>
    /\ fatal = ""
    /\ onScenarioA = TRUE
    /\ accepted = <<>>
    /\ file \in Files
    /\ run = 1
    /\ first = <<>>
    /\ peer = <<>>

\* one iteration of "for s.Scan()": the scanner delivers the next line of file
ScanFile ==
    /\ pc = "Streaming"
    /\ nread < Len(file)
    /\ \E extFail \in BOOLEAN : ScanLineWith(file[nread + 1], extFail)

\* s.Scan() returns false once every line of file was delivered
ScanFileStop ==
    /\ nread = Len(file)
    /\ ScanStop

\* The count pipeline belongs to the program of src/src, the re-encode
\* pipeline to the program of src, the password pipeline to both: the two
\* programs create table hibp with different columns, and the two runs are
\* runs of one program.
SameProgram(m1, m2) == {m1, m2} # {"count", "reencode"}

\* the program is started again on the same file and destination, with the
\* same or another of its pipelines: the run-local state is fresh, the tables
\* stay
Rerun ==
    /\ pc = "Done"
    /\ run = 1
    /\ run' = 2
    /\ first' = <<[mode |-> mode, store |-> store]>>
    /\ mode' \in {m \in Modes : SameProgram(mode, m)}
    /\ pc' = "Init"
    /\ line' = <<>>
    /\ data' = <<>>
    /\ nread' = 0
    /\ count' = 0
    /\ errors' = 0
    /\ rowData' = <<>>
    /\ execLog' = <<>>
    /\ rowErrors' = 0
    /\ returned' = <<>>
    /\ onScenarioA' = TRUE
    /\ accepted' = <<>>
    /\ date' \in {d \in Dates : stringToDate(d) /\ Parse(d).time = date}
    /\ UNCHANGED <<BATCH_SIZE, store, imports, faults, fatal, file, peer>>

\* the steps of a single run over the fixed file
NextFile ==
    \/ StringToDate
    \/ Connect
    \/ SchemaCreate
    \/ OpenFile
    \/ ScanFile
    \/ ScanFileStop
    \/ FinalFlush
    \/ LogImport

NextTwice ==
    \/ StringToDate
    \/ Connect
    \/ SchemaCreate
    \/ OpenFile
    \/ ScanFile
    \/ ScanFileStop
    \/ FinalFlush
    \/ LogImport
    \/ Rerun

SpecTwice == InitTwice /\ [][NextTwice]_vars

(***************************************************************************)
(* One binary re-encode run over a one-line file "key:1" whose key is a    *)
(* valid hex digest of 4 or of 20 bytes.                                   *)
(***************************************************************************)
\* "00000000" and "0000000f": the hex text of a zero and of a non-zero group
GroupZero == <<48, 48, 48, 48, 48, 48, 48, 48>>
GroupFifteen == <<48, 48, 48, 48, 48, 48, 48, 102>>
KeyGroups == {GroupZero, GroupFifteen}

\* the 8-character keys over the hex digits '0' and 'f'
ShortKeys == [1..8 -> {48, 102}]
\* 40-character keys (the width of a SHA-1 digest) made of five groups
DigestKeys ==
    {g[1] \o g[2] \o g[3] \o g[4] \o g[5] : g \in [1..5 -> KeyGroups]}

EncodeKeys == ShortKeys \cup DigestKeys

InitEncode ==
    /\ mode = "reencode"
    /\ BATCH_SIZE \in 1..MaxBatch
    /\ date \in Dates
    /\ pc = "Init"
    /\ line = <<>>
    /\ data = <<>>
    /\ nread = 0
    /\ count = 0
    /\ errors = 0
    /\ rowData = <<>>
    /\ store = EmptyStore
    /\ imports = <<>>
    /\ execLog = <<>>
    /\ rowErrors = 0
    /\ faults = 0
    /\ returned = <<>>
    /\ fatal = ""
    /\ onScenarioA = TRUE
    /\ accepted = <<>>
    /\ file \in {<<k \o <<58, 49>>>> : k \in EncodeKeys}
    /\ run = 1
    /\ first = <<>>
    /\ peer = <<>>

SpecEncode == InitEncode /\ [][NextFile]_vars

\* One run over an input of at most MaxFileLen lines.  Every step of the run
\* is a blocking call that returns: the single goroutine of main keeps taking
\* its next step until the run is done or aborted.
\* "ab:9223372036854775808": the count is one above the largest int
LineOutOfRange == <<97, 98, 58>> \o MinIntDigits
\* "\xc3\x89:5": the key is the upper-case letter U+00C9 in UTF-8
LineNonAscii == <<195, 137, 58, 53>>

FairLines == FileLines \cup {LineOutOfRange, LineNonAscii}

ScanFair ==
    /\ pc = "Streaming"
    /\ nread < MaxFileLen
    /\ \E l \in FairLines, extFail \in BOOLEAN : ScanLineWith(l, extFail)

NextFair ==
    \/ StringToDate
    \/ Connect
    \/ SchemaCreate
    \/ OpenFile
    \/ ScanFair
    \/ ScanStop
    \/ FinalFlush
    \/ LogImport

FairSpec == Init /\ [][NextFair]_vars /\ WF_vars(NextFair)

(***************************************************************************)
(* Two processes of the program at the same time against one destination:  *)
(* one started with -hibp-file (the count pipeline) and one with           *)
(* -hibp-passwords-file (the password pipeline).  Each is the single       *)
(* goroutine of its main; the tables hibp and imports are shared, every    *)
(* statement reaching the store takes effect as a whole or not at all, and *)
(* the store may abort one of two overlapping batch statements (Deadlocks).*)
(* The run-local variables are those of the process that takes the next    *)
(* step; peer holds the run-local state of the other process.              *)
(***************************************************************************)
\* longest input of each of the two concurrent runs
MaxPairLen == 2

\* lines of the two inputs: both name the identifier "ab"
PairLines == {LineCountOne, LineCountTwo, LineValidB}

\* the run-local state of the process taking the next step
Local ==
    [mode |-> mode, pc |-> pc, line |-> line, data |-> data, nread |-> nread,
     count |-> count, errors |-> errors, rowData |-> rowData,
     rowErrors |-> rowErrors, returned |-> returned, fatal |-> fatal,
     onScenarioA |-> onScenarioA, accepted |-> accepted, date |-> date]

\* the run-local state of a process before its first step
LocalInit(m) ==
    [mode |-> m, pc |-> "Init", line |-> <<>>, data |-> <<>>, nread |-> 0,
     count |-> 0, errors |-> 0, rowData |-> <<>>, rowErrors |-> 0,
     returned |-> <<>>, fatal |-> "", onScenarioA |-> TRUE,
     accepted |-> <<>>, date |-> DateGood]

InitPair ==
    /\ mode = "count"
    /\ BATCH_SIZE \in 1..MaxBatch
    /\ date = DateGood
    /\ pc = "Init"
    /\ line = <<>>
    /\ data = <<>>
    /\ nread = 0
    /\ count = 0
    /\ errors = 0
    /\ rowData = <<>>
    /\ store = EmptyStore
    /\ imports = <<>>
    /\ execLog = <<>>
    /\ rowErrors = 0
    /\ faults = 0
    /\ returned = <<>>
    /\ fatal = ""
    /\ onScenarioA = TRUE
    /\ accepted = <<>>
    /\ file = <<>>
    /\ run = 1
    /\ first = <<>>
    /\ peer = <<LocalInit("password")>>

\* one iteration of "for s.Scan()" in the process taking the next step
ScanPair ==
    /\ pc = "Streaming"
    /\ nread < MaxPairLen
    /\ \E l \in PairLines, extFail \in BOOLEAN : ScanLineWith(l, extFail)

\* the other process is the one that takes the next step
Switch ==
    /\ peer # <<>>
    /\ peer' = <<Local>>
    /\ mode' = peer[1].mode
    /\ pc' = peer[1].pc
    /\ line' = peer[1].line
    /\ data' = peer[1].data
    /\ nread' = peer[1].nread
    /\ count' = peer[1].count
    /\ errors' = peer[1].errors
    /\ rowData' = peer[1].rowData
    /\ rowErrors' = peer[1].rowErrors
    /\ returned' = peer[1].returned
    /\ fatal' = peer[1].fatal
    /\ onScenarioA' = peer[1].onScenarioA
    /\ accepted' = peer[1].accepted
    /\ date' = peer[1].date
    /\ UNCHANGED <<BATCH_SIZE, store, imports, execLog, faults, file,
                   run, first>>

NextPair ==
    \/ StringToDate
    \/ Connect
    \/ SchemaCreate
    \/ OpenFile
    \/ ScanPair
    \/ ScanStop
    \/ FinalFlush
    \/ LogImport
    \/ Switch

SpecPair == InitPair /\ [][NextPair]_vars

\* The table a run of pipeline m leaves when it starts on table st, accepts
\* the rows in rows and no statement is rejected for an external reason: a
\* batch write each time the count reaches a multiple of b, then the write
\* of what is left in the buffer.
RECURSIVE RunStore(_, _, _, _)
RunStore(m, st, rows, b) ==
    IF Len(rows) >= b
    THEN RunStore(m,
                  hibpProcessRowDataBatch(m, st, SubSeq(rows, 1, b), FALSE).store,
                  SubSeq(rows, b + 1, Len(rows)), b)
    ELSE hibpProcessRowDataBatch(m, st, rows, FALSE).store

TypeOK ==
    /\ mode \in Modes
    /\ BATCH_SIZE \in 1..MaxBatch
    /\ pc \in {"Init", "Connect", "Schema", "Open", "Streaming", "Flushing",
               "Logging", "Done", "Aborted"}
    /\ nread \in 0..MaxLines
    /\ count \in 0..MaxLines
    /\ errors \in Nat
    /\ Len(rowData) <= MaxLines

(***************************************************************************)
(* Observations on the statement log                                       *)
(***************************************************************************)
IsBatchWrite(e) == e.stmt = "hibp"
IsLedgerWrite(e) == e.stmt = "imports"
IsFailedBatch(e) == e.stmt = "hibp" /\ e.err

\* the batch-writer invocations, in order
BatchWrites == SelectSeq(execLog, IsBatchWrite)
\* the ledger writes, in order
LedgerWrites == SelectSeq(execLog, IsLedgerWrite)
\* the number of batch writes the store rejected
FailedBatches == Len(SelectSeq(execLog, IsFailedBatch))
\* the sizes of the buffers handed to the batch writer, in order
BatchSizes == [i \in 1..Len(BatchWrites) |-> Len(BatchWrites[i].rows)]

RECURSIVE Concat(_)
Concat(ss) == IF Len(ss) = 0 THEN <<>> ELSE Head(ss).rows \o Concat(Tail(ss))

\* every row accepted so far: the rows of all batches, then the buffer
\* (after the end-of-input flush the buffer is the last batch)
Accepted ==
    IF pc \in {"Logging", "Done"} THEN Concat(BatchWrites)
    ELSE Concat(BatchWrites) \o rowData

\* this step scanned a line
Scanned == nread' = nread + 1

\* the positions of ':' in a line
Colons(l) == {i \in 1..Len(l) : l[i] = 58}
\* the part of l before position i and the part after it
Before(l, i) == [k \in 1..(i - 1) |-> l[k]]
After(l, i) == [k \in 1..(Len(l) - i) |-> l[i + k]]
\* the least element of a non-empty set of positions
Least(S) == CHOOSE i \in S : \A j \in S : i <= j

(***************************************************************************)
(* C1: when the buffer is empty at end of input, the final flush is a      *)
(* no-op: no statement is sent for an empty buffer, and a run over an      *)
(* empty input ends with 0 accepted rows, 0 errors and ledger state "done".*)
(***************************************************************************)
C1_EmptyFlushIsNoOp ==
    /\ \A i \in 1..Len(execLog) :
          IsBatchWrite(execLog[i]) => execLog[i].rows # <<>>
    /\ (pc \in {"Logging", "Done"} /\ nread = 0) => count = 0 /\ errors = 0
    /\ (pc = "Done" /\ nread = 0) =>
          /\ returned = <<0>>
          /\ \A i \in 1..Len(LedgerWrites) :
                LedgerWrites[i].rows[1].state = "done"

(***************************************************************************)
(* C2: in a run that is not aborted the ledger write is issued exactly     *)
(* once, after every batch write of the run (each full batch and the final *)
(* flush) was attempted; no ledger write precedes a batch write.           *)
(***************************************************************************)
C2_LedgerOnceAfterAllBatches ==
    /\ Len(LedgerWrites) <= 1
    /\ Len(imports) <= Len(LedgerWrites)
    /\ pc = "Done" => Len(LedgerWrites) = 1
    /\ Len(LedgerWrites) = 1 =>
          /\ pc = "Done"
          /\ Len(BatchWrites) = (count \div BATCH_SIZE) + 1
          /\ Len(Concat(BatchWrites)) = count
    /\ \A i, j \in 1..Len(execLog) :
          (IsLedgerWrite(execLog[i]) /\ IsBatchWrite(execLog[j])) => j < i

C2_Witness ==
    /\ pc = "Done"
    /\ Len(BatchWrites) = 3
    /\ FailedBatches = 1
    /\ Len(imports) = 1

(***************************************************************************)
(* C3: the ledger state is "error" if the error counter is positive once   *)
(* all flushes were attempted and "done" otherwise; the error counter is   *)
(* the number of rejected lines plus the number of failed batch writes.    *)
(***************************************************************************)
C3_LedgerStateFromErrors ==
    /\ errors = rowErrors + FailedBatches
    /\ \A i \in 1..Len(LedgerWrites) :
          LedgerWrites[i].rows[1].state =
              IF rowErrors + FailedBatches > 0 THEN "error" ELSE "done"
    /\ \A i \in 1..Len(imports) :
          imports[i].state = IF errors > 0 THEN "error" ELSE "done"

C3_Witness ==
    /\ pc = "Done"
    /\ rowErrors = 2
    /\ FailedBatches = 1
    /\ Len(imports) = 1
    /\ imports[1].state = "error"

\* a completed run without any error records "done"
C3_WitnessDone ==
    /\ pc = "Done"
    /\ errors = 0
    /\ Len(imports) = 1
    /\ imports[1].state = "done"

(***************************************************************************)
(* C4: a run over 2*B + 1 valid lines with batch size B invokes the batch  *)
(* writer exactly 3 times, with buffers of sizes B, B, 1 in that order.    *)
(***************************************************************************)
C4_BatchBoundary ==
    (pc \in {"Logging", "Done"} /\ nread = 2 * BATCH_SIZE + 1 /\ count = nread)
        => BatchSizes = <<BATCH_SIZE, BATCH_SIZE, 1>>

\* C4 as amended: the same for every batch size B >= 2 (with B = 1 the three
\* lines fill three batches and the end-of-input flush is a fourth
\* invocation, with an empty buffer)
C4_BatchBoundaryFromTwo ==
    (/\ pc \in {"Logging", "Done"}
     /\ BATCH_SIZE >= 2
     /\ nread = 2 * BATCH_SIZE + 1
     /\ count = nread)
        => BatchSizes = <<BATCH_SIZE, BATCH_SIZE, 1>>

C4_Witness ==
    /\ pc = "Done"
    /\ BATCH_SIZE = 2
    /\ nread = 5
    /\ count = 5
    /\ Len(BatchWrites) = 3

(***************************************************************************)
(* C5: a count-form run with batch size 2 over (valid, no separator,       *)
(* valid) ends with 2 accepted rows, exactly 1 counted error, exactly one  *)
(* batch write (of size 2) and ledger state "error".                       *)
(***************************************************************************)
C5_ScenarioA ==
    (/\ pc = "Done"
     /\ mode = "count"
     /\ BATCH_SIZE = 2
     /\ onScenarioA
     /\ nread = Len(ScenarioA)
     /\ faults = 0)
        => /\ returned = <<2>>
           /\ errors = 1
           /\ BatchSizes = <<2>>
           /\ LedgerWrites[1].rows[1].state = "error"

(***************************************************************************)
(* C6: a rejected batch statement adds exactly one to the error counter    *)
(* whatever the number of rows, the batch is not retried, its rows are     *)
(* dropped (the store is unchanged and the buffer restarts empty), and the *)
(* run continues and still reaches the ledger write.                       *)
(***************************************************************************)
BatchFailedNow ==
    /\ Len(execLog') = Len(execLog) + 1
    /\ IsFailedBatch(execLog'[Len(execLog')])

C6_StepOnFailure ==
    BatchFailedNow =>
        /\ errors' = errors + 1
        /\ store' = store
        /\ pc' = IF pc = "Streaming" THEN "Streaming" ELSE "Logging"
        /\ pc = "Streaming" => rowData' = <<>>
        /\ fatal' = ""

C6_Counts ==
    /\ Len(BatchWrites) =
          (count \div BATCH_SIZE) + (IF pc \in {"Logging", "Done"} THEN 1 ELSE 0)
    /\ Len(Accepted) = count
    /\ (pc = "Done" /\ FailedBatches > 0) => Len(LedgerWrites) = 1

C6_BatchFailureCountsOnce == [][C6_StepOnFailure]_vars /\ []C6_Counts

C6_Witness ==
    /\ pc = "Done"
    /\ errors = 1
    /\ Len(BatchWrites) = 2
    /\ BatchWrites[1].err
    /\ Len(BatchWrites[1].rows) = 2
    /\ ~BatchWrites[2].err
    /\ Len(BatchWrites[2].rows) = 1
    /\ DOMAIN store = {BatchWrites[2].rows[1].hash}

(***************************************************************************)
(* C7: a fatal condition (date, connection, schema, file open, file read)  *)
(* stops the run without a ledger entry ever being written.                *)
(***************************************************************************)
C7_FatalLeavesNoLedger ==
    /\ fatal # "" =>
        /\ pc = "Aborted"
        /\ LedgerWrites = <<>>
        /\ imports = <<>>
        /\ returned = <<>>
        /\ ~ENABLED Next
    \* a missing or unparseable date is fatal before anything else is done;
    \* "November 19 2020" and "november 19 2020" are the date 2020-11-19
    /\ pc # "Init" =>
        IF fatal = "date"
        THEN /\ date \in {DateBadDay, DateBadMonth, DateExtraText,
                          DateShortYear, DateEmpty}
             /\ execLog = <<>>
        ELSE date = <<2020, 11, 19>>

C7_Witness ==
    /\ pc = "Aborted"
    /\ fatal = "read"
    /\ store # EmptyStore
    /\ rowData # <<>>

(***************************************************************************)
(* C8: every row handed to the batch writer has a non-empty identifier.    *)
(***************************************************************************)
C8_IdentifierNonEmpty ==
    \A i \in 1..Len(BatchWrites) :
        \A k \in 1..Len(BatchWrites[i].rows) :
            BatchWrites[i].rows[k].hash # <<>>

(***************************************************************************)
(* C9: a line without ':' is skipped: the error counter increases by one,  *)
(* accepted-row count, buffer and store are unchanged; a line with more    *)
(* than one ':' is split at the first one only and is not an error for     *)
(* that reason.                                                            *)
(***************************************************************************)
C9_Step ==
    Scanned =>
        /\ Colons(line') = {} =>
              /\ errors' = errors + 1
              /\ count' = count
              /\ rowData' = rowData
              /\ store' = store
              /\ execLog' = execLog
              /\ pc' = pc
        /\ Cardinality(Colons(line')) > 1 =>
              LET i == Least(Colons(line'))
              IN /\ data' = <<Before(line', i), After(line', i)>>
                 /\ mode = "password" =>
                       /\ count' = count + 1
                       /\ rowErrors' = rowErrors
                       /\ Accepted' = Append(Accepted,
                              [hash |-> ToLower(Before(line', i)),
                               password |-> After(line', i)])

C9_MissingSeparatorSkipped == [][C9_Step]_vars

C9_Witness ==
    /\ mode = "password"
    /\ BATCH_SIZE = 2
    /\ line = LineNoSep
    /\ errors = 1
    /\ rowData = <<[hash |-> <<101, 102>>, password |-> <<49, 58, 50>>]>>

(***************************************************************************)
(* C10: in the count form, a line h:n with integer n appends exactly one   *)
(* row (lower-cased h, n); with a non-integer n no row is appended, the    *)
(* accepted-row count is unchanged and the error counter increases by one. *)
(***************************************************************************)
C10_Step ==
    (Scanned /\ mode = "count" /\ Colons(line') # {}) =>
        LET i == Least(Colons(line'))
            h == Before(line', i)
            n == After(line', i)
        IN /\ ~Atoi(n).err =>
                 /\ Accepted' =
                       Append(Accepted, [hash |-> ToLower(h), count |-> Atoi(n).val])
                 /\ count' = count + 1
                 /\ rowErrors' = rowErrors
           /\ Atoi(n).err =>
                 /\ Accepted' = Accepted
                 /\ count' = count
                 /\ errors' = errors + 1
           /\ line' = LineValidA =>
                 Accepted'[Len(Accepted')] = [hash |-> <<97, 98>>, count |-> 5]
           /\ line' = LineNotInt => Accepted' = Accepted

C10_CountLineParsed == [][C10_Step]_vars

C10_Witness ==
    /\ mode = "count"
    /\ BATCH_SIZE = 2
    /\ line = LineValidA
    /\ errors = 1
    /\ rowErrors = 1
    /\ count = 1
    /\ rowData = <<[hash |-> <<97, 98>>, count |-> 5]>>

(***************************************************************************)
(* C11: in both identifier encoders a key that is not valid hex (a byte    *)
(* outside the hex alphabet, or odd length) is a per-row error: the error  *)
(* counter increases by one, the row is skipped and not handed to the      *)
(* writer, and the run is not aborted.                                     *)
(***************************************************************************)
HexAlphabet == (48..57) \cup (65..70) \cup (97..102)
ValidHexKey(k) == Len(k) % 2 = 0 /\ \A i \in 1..Len(k) : k[i] \in HexAlphabet

\* this step scanned a line "key:value" whose key is not valid hex
ScannedBadHex ==
    /\ Scanned
    /\ Colons(line') # {}
    /\ ~ValidHexKey(Before(line', Least(Colons(line'))))

RowSkipped ==
    /\ errors' = errors + 1
    /\ rowErrors' = rowErrors + 1
    /\ count' = count
    /\ accepted' = accepted
    /\ rowData' = rowData
    /\ execLog' = execLog
    /\ store' = store
    /\ pc' = pc
    /\ fatal' = ""

C11_BadHexSkippedStep == ScannedBadHex => RowSkipped

C11_BadHexSkipped == [][C11_BadHexSkippedStep]_vars

\* C11 as amended: the binary re-encode encoder skips the row; the
\* passthrough encoder of the count form validates nothing and accepts the
\* lower-cased key as the identifier of a row
C11_ReencodeStep ==
    ScannedBadHex =>
        /\ mode = "reencode" => RowSkipped
        /\ (mode = "count" /\ line' = LineNotHex) =>
              /\ count' = count + 1
              /\ rowErrors' = rowErrors
              /\ accepted' = Append(accepted, [hash |-> <<103, 104>>, count |-> 1])
              /\ fatal' = ""

C11_BadHexSkippedInReencode == [][C11_ReencodeStep]_vars

C11_Witness ==
    /\ mode = "reencode"
    /\ BATCH_SIZE = 2
    /\ line = LineOddHex
    /\ nread = 3
    /\ errors = 2
    /\ rowErrors = 2
    /\ count = 1
    /\ Len(rowData) = 1
    /\ pc = "Streaming"

(***************************************************************************)
(* Observations on a batch statement the store accepted in this step       *)
(***************************************************************************)
BatchOkNow ==
    /\ Len(execLog') = Len(execLog) + 1
    /\ IsBatchWrite(execLog'[Len(execLog')])
    /\ ~execLog'[Len(execLog')].err

RowsNow == execLog'[Len(execLog')].rows
IdsOf(rows) == {rows[i].hash : i \in 1..Len(rows)}
\* the last row of rows with identifier k
LastRowOf(rows, k) ==
    rows[CHOOSE i \in 1..Len(rows) :
            /\ rows[i].hash = k
            /\ \A j \in 1..Len(rows) : rows[j].hash = k => j <= i]
\* the record of k before the statement, all NULL when k was absent
RecordBefore(k) ==
    IF k \in DOMAIN store THEN store[k] ELSE [password |-> <<>>, count |-> <<>>]

\* the identifier "ab"
IdAB == <<97, 98>>

(***************************************************************************)
(* C12: an upsert updates only the field of its own variant: a count-row   *)
(* upsert sets the count and leaves the password, a password-row upsert    *)
(* sets the password and leaves the count, an identifier-only upsert of an *)
(* existing identifier changes nothing; count 1 then count 2 then a        *)
(* password row for the same identifier leave count 2 and the password.    *)
(***************************************************************************)
C12_FrameStep ==
    BatchOkNow =>
        /\ DOMAIN store' = DOMAIN store \cup IdsOf(RowsNow)
        /\ \A k \in DOMAIN store' \ IdsOf(RowsNow) : store'[k] = store[k]
        /\ \A k \in IdsOf(RowsNow) :
              /\ mode = "count" =>
                    /\ store'[k].count = <<LastRowOf(RowsNow, k).count>>
                    /\ store'[k].password = RecordBefore(k).password
              /\ mode = "password" =>
                    /\ store'[k].password = <<LastRowOf(RowsNow, k).password>>
                    /\ store'[k].count = RecordBefore(k).count
              /\ mode = "reencode" => store'[k] = RecordBefore(k)

C12_CountThenPassword ==
    (/\ run = 2
     /\ pc = "Done"
     /\ mode = "password"
     /\ first[1].mode = "count"
     /\ file = <<LineCountOne, LineCountTwo>>
     /\ BATCH_SIZE = 1
     /\ faults = 0)
        => /\ first[1].store = (IdAB :> [password |-> <<>>, count |-> <<2>>])
           /\ store = (IdAB :> [password |-> <<(<<50>>)>>, count |-> <<2>>])

C12_UpsertOwnFieldOnly == [][C12_FrameStep]_vars /\ []C12_CountThenPassword

C12_Witness ==
    /\ run = 2
    /\ pc = "Done"
    /\ mode = "password"
    /\ first[1].mode = "count"
    /\ file = <<LineCountOne, LineCountTwo>>
    /\ BATCH_SIZE = 1
    /\ faults = 0
    /\ store[IdAB].count = <<2>>
    /\ store[IdAB].password # <<>>

(***************************************************************************)
(* C13: running a pipeline twice over the same input against an initially  *)
(* empty destination leaves the same records as running it once, in each   *)
(* of the three variants; replaying a batch leaves the destination         *)
(* unchanged.                                                              *)
(***************************************************************************)
C13_TwiceAsOnce ==
    (run = 2 /\ pc = "Done" /\ first[1].mode = mode /\ faults = 0)
        => store = first[1].store

C13_ReplayStep ==
    BatchOkNow => UpsertRows(mode, store', RowsNow) = store'

C13_RerunIdempotent == []C13_TwiceAsOnce /\ [][C13_ReplayStep]_vars

C13_Witness ==
    /\ run = 2
    /\ pc = "Done"
    /\ first[1].mode = mode
    /\ mode = "count"
    /\ faults = 0
    /\ Len(file) = 3
    /\ Cardinality(DOMAIN store) = 2
    /\ store = first[1].store

(***************************************************************************)
(* C14: in binary re-encode mode the stored identifier is fixed-width: 5   *)
(* printable characters per 4-byte group (25 for a 20-byte digest),        *)
(* whatever the byte values, groups of four zero bytes included.           *)
(***************************************************************************)
\* the key of the one-line file
KeyOfFile == Before(file[1], Least(Colons(file[1])))

C14_FixedWidthIdentifier ==
    \A k \in DOMAIN store : Len(k) = 5 * (Len(KeyOfFile) \div 8)

(***************************************************************************)
(* C15: the value a run returns is the number of accepted rows, whether or *)
(* not a batch write or the ledger write failed: rows of a failed batch    *)
(* are counted, and a ledger failure changes neither the return value nor  *)
(* the process outcome.                                                    *)
(***************************************************************************)
C15_ReturnsAcceptedCount ==
    /\ pc # "Done" => returned = <<>>
    /\ pc = "Done" =>
          /\ returned = <<Len(accepted)>>
          /\ Len(Concat(BatchWrites)) = Len(accepted)
          /\ fatal = ""

C15_Witness ==
    /\ pc = "Done"
    /\ returned = <<2>>
    /\ Len(BatchWrites[1].rows) = 2
    /\ BatchWrites[1].err
    /\ store = EmptyStore
    /\ LedgerWrites[1].err
    /\ imports = <<>>

(***************************************************************************)
(* C16: a run that meets no fatal condition passes through Init,           *)
(* Streaming, Flushing, Logging, Done in that order and eventually reaches *)
(* Done; Flushing is entered once and never before the last line was read. *)
(***************************************************************************)
Phase(p) == IF p \in {"Init", "Connect", "Schema", "Open"} THEN "Init" ELSE p

PhaseOrder ==
    {<<"Init", "Streaming">>, <<"Streaming", "Flushing">>,
     <<"Flushing", "Logging">>, <<"Logging", "Done">>,
     <<"Init", "Aborted">>, <<"Streaming", "Aborted">>}

C16_OrderStep ==
    /\ Phase(pc') # Phase(pc) => <<Phase(pc), Phase(pc')>> \in PhaseOrder
    /\ pc' = "Aborted" <=> fatal' # ""
    /\ pc \in {"Flushing", "Logging", "Done"} =>
          /\ nread' = nread
          /\ accepted' = accepted
          /\ pc' # "Streaming"

C16_RunReachesDone ==
    [][C16_OrderStep]_vars /\ <>(pc = "Done" \/ fatal # "")

C16_Witness ==
    /\ pc = "Done"
    /\ nread = 3
    /\ rowErrors = 1
    /\ FailedBatches = 2
    /\ LedgerWrites[1].err = FALSE

(***************************************************************************)
(* C17: the buffer never holds more than BATCH_SIZE rows and, between line *)
(* iterations, its length is the accepted-row count modulo BATCH_SIZE; the *)
(* count-based trigger fires exactly when the buffer reaches BATCH_SIZE,   *)
(* and no batch exceeds BATCH_SIZE rows, rejected lines interleaved or not.*)
(***************************************************************************)
C17_BufferInv ==
    /\ Len(rowData) = count % BATCH_SIZE
    /\ Len(rowData) < BATCH_SIZE
    /\ \A i \in 1..Len(BatchWrites) : Len(BatchWrites[i].rows) <= BATCH_SIZE

C17_TriggerStep ==
    (Scanned /\ count' = count + 1) =>
        /\ (Len(execLog') = Len(execLog) + 1) <=> (Len(rowData) + 1 = BATCH_SIZE)
        /\ Len(execLog') = Len(execLog) + 1 =>
              Len(execLog'[Len(execLog')].rows) = BATCH_SIZE

C17_BufferBounded == []C17_BufferInv /\ [][C17_TriggerStep]_vars

C17_Witness ==
    /\ pc = "Streaming"
    /\ BATCH_SIZE = 2
    /\ nread = 5
    /\ rowErrors = 2
    /\ count = 3
    /\ BatchSizes = <<2>>
    /\ Len(rowData) = 1
    /\ line = LineNoSep

(***************************************************************************)
(* C18: every accepted row is handed to the batch writer in exactly one    *)
(* invocation, and the batches in invocation order concatenate to the      *)
(* accepted rows in input order: none skipped, duplicated, reordered or    *)
(* carried over into a later batch.                                        *)
(***************************************************************************)
C18_BatchesPartitionAccepted ==
    /\ pc \in {"Logging", "Done"} => Concat(BatchWrites) = accepted
    /\ pc \notin {"Logging", "Done"} => Concat(BatchWrites) \o rowData = accepted
    /\ Len(accepted) = count

C18_Witness ==
    /\ pc = "Done"
    /\ mode = "password"
    /\ BATCH_SIZE = 2
    /\ Len(accepted) = 5
    /\ BatchWrites[2].err
    /\ ~BatchWrites[1].err
    /\ ~BatchWrites[3].err
    /\ accepted[1] # accepted[3]

(***************************************************************************)
(* C19: full batches are written while lines are still scanned and a read  *)
(* error is examined after the loop only: a run aborted by a read error    *)
(* can leave full batches committed, never flushes the pending partial     *)
(* buffer, and leaves no ledger entry.                                     *)
(***************************************************************************)
C19_ReadErrorInv ==
    fatal = "read" =>
        /\ pc = "Aborted"
        /\ Len(BatchWrites) = count \div BATCH_SIZE
        /\ \A i \in 1..Len(BatchWrites) : Len(BatchWrites[i].rows) = BATCH_SIZE
        /\ Concat(BatchWrites) \o rowData = accepted
        /\ LedgerWrites = <<>>
        /\ imports = <<>>

\* a batch written during the scan is in the destination before the next line
C19_CommitStep ==
    (Scanned /\ BatchOkNow) =>
        /\ pc' = "Streaming"
        /\ store' = UpsertRows(mode, store, RowsNow)
        /\ IdsOf(RowsNow) \subseteq DOMAIN store'

C19_ReadErrorKeepsBatches == []C19_ReadErrorInv /\ [][C19_CommitStep]_vars

C19_Witness ==
    /\ fatal = "read"
    /\ BATCH_SIZE = 2
    /\ Len(BatchWrites) = 2
    /\ Cardinality(DOMAIN store) = 3
    /\ Len(rowData) = 1
    /\ rowData[1].hash \notin DOMAIN store
    /\ imports = <<>>

(***************************************************************************)
(* C20: a count run and a password run executing concurrently on the same  *)
(* table, with overlapping identifiers and no statement rejected for a     *)
(* reason outside the two runs: whatever the interleaving of their batch   *)
(* writes, once                                                            *)
(* both returned the table is the one the two runs leave when run one      *)
(* after the other, in either order; each identifier has the count of the  *)
(* count run and the password of the password run; and each run has        *)
(* written its own single ledger entry.                                    *)
(***************************************************************************)
\* the run-local state of the count run and of the password run
CountRun == IF mode = "count" THEN Local ELSE peer[1]
PasswordRun == IF mode = "password" THEN Local ELSE peer[1]

BothReturned == peer # <<>> /\ pc = "Done" /\ peer[1].pc = "Done"

CountThenPassword ==
    RunStore("password",
             RunStore("count", EmptyStore, CountRun.accepted, BATCH_SIZE),
             PasswordRun.accepted, BATCH_SIZE)

PasswordThenCount ==
    RunStore("count",
             RunStore("password", EmptyStore, PasswordRun.accepted, BATCH_SIZE),
             CountRun.accepted, BATCH_SIZE)

\* the column col of identifier k in table st, <<>> when absent or NULL
Column(st, k, col) == IF k \in DOMAIN st THEN st[k][col] ELSE <<>>

LedgerNames == [i \in 1..Len(imports) |-> imports[i].name]

C20_ConcurrentAsSequential ==
    (BothReturned /\ faults = 0) =>
        LET alone_c == RunStore("count", EmptyStore, CountRun.accepted,
                                BATCH_SIZE)
            alone_p == RunStore("password", EmptyStore, PasswordRun.accepted,
                                BATCH_SIZE)
        IN /\ store = CountThenPassword
           /\ store = PasswordThenCount
           /\ DOMAIN store = DOMAIN alone_c \cup DOMAIN alone_p
           /\ \A k \in DOMAIN store :
                /\ store[k].count = Column(alone_c, k, "count")
                /\ store[k].password = Column(alone_p, k, "password")
           /\ Len(imports) = 2
           /\ {LedgerNames[i] : i \in 1..2} =
                 {SourceName("count"), SourceName("password")}
           /\ CountRun.returned = <<Len(CountRun.accepted)>>
           /\ PasswordRun.returned = <<Len(PasswordRun.accepted)>>

====
